---- MODULE Spec2Model ----
(***************************************************************************)
(* pyroSAR: the stacking pipeline stack() of spatial/raster.py with the    *)
(* helpers of ancillary.py it relies on (dissolve, multicore), and         *)
(* groupbyTime().                                                          *)
(*                                                                         *)
(* A raster file is a path, a number of 1..NPaths; paths compare as the    *)
(* numbers do (Python compares the path strings).  Several paths share an  *)
(* extension-stripped basename: Stem is not injective.  The destination's  *)
(* own basename is taken to differ from every source's.                    *)
(***************************************************************************)
EXTENDS Integers, Sequences, FiniteSets, TLC

\* ------------------------------------------------------------ bounds
NPaths == 3
MaxResLen == 3
NProj == 2
NImages == 3
MaxKey == 3
MaxTime == 3
NElems == 3
MaxListLen == 2
MaxArgs == 2
MaxSide == 3
MaxBands == 2
MaxOps == 3

Paths == 1..NPaths

\* the last path has the basename of the first, in another directory
NStems == NPaths - 1

Stems == 1..NStems

\* ------------------------------------------------------------ state
VARIABLES
    req,        \* the arguments of the stack() call, as the caller passed them
    pc,         \* where the call is
    err,        \* the exception that ended the call ("" if none)
    run,        \* 1 in the call, 2 when the caller has repeated the request
    srcfiles,   \* stack()'s srcfiles: the groups, later the VRT of each
    bandnames,  \* stack()'s bandnames
    proj,       \* the projection of each raster file (0: not opened so far)
    inside,     \* the raster files whose bounding box intersects the shapefile
    opened,     \* the raster files opened by Raster(x) in this call
    tmpdir,     \* whether <dst_base>__tmp exists
    vrtFile,    \* the VRT files in tmpdir: what each references (<<>>: no file)
    nvrt,       \* gdalbuildvrt calls of this call
    dstDir,     \* whether the destination directory exists
    dstFiles,   \* the names n for which <dstfile>/<n>.tif exists
    jobs,       \* the (src, dst) pairs handed to multicore() in this call
    warped,     \* the pairs gdalwarp was called with by the pool in this call
    failed,     \* the pairs whose gdalwarp call raised
    cube,       \* the combined output: its bands and the band names of its header
    prev,       \* how the previous call of the request ended
    \* groupbyTime(images, function, time)
    images,     \* the list of image names
    function,   \* the time the caller's function derives from each name
    time,       \* the time difference
    gpc,        \* where the call is
    gsrcfiles,  \* groupbyTime's srcfiles: the images sorted
    item,       \* the index of the loop's item in gsrcfiles
    temp,       \* groupbyTime's temp
    groups,     \* groupbyTime's groups
    \* union(a, b)
    ua,         \* the list a
    ub,         \* the list b
    upc,        \* where the call is
    uresult,    \* the list returned
    \* multicore(function, cores, multiargs, **singleargs), function being add
    mp,         \* whether pathos was imported
    cores,      \* multicore's cores
    multiargs,  \* the argument lists by argument name
    singleargs, \* the other arguments by name
    mcpc,       \* where the call is
    mcerr,      \* the exception that ended the call ("" if none)
    processlist, \* multicore's processlist
    called,     \* how often the pool called function with each entry of processlist
    returned,   \* what multicore returned
    \* a Raster object and the calls of its methods
    file,       \* the raster file: its size, bands and valid pixels
    rows,       \* self.rows
    cols,       \* self.cols
    bands,      \* self.bands
    data,       \* self.__data
    geo,        \* self.geo: xmin and ymax, in pixels from the file's origin
    rgeo,       \* the geotransform of self.raster: its origin, likewise
    rpc,        \* "ready", or "returned"/"raised" after the call looked at
    rerr,       \* the exception of the last call ("" if none)
    ops,        \* the methods called on the object so far
    call,       \* the arguments of the call looked at
    ret,        \* the array matrix() returned
    out,        \* the file write() made
    \* Raster.extract(px, py, radius, no_data)
    scene,      \* the raster: its size, the one pixel that is not no data
    query,      \* the arguments px, py, radius, no_data
    epc,        \* where the call is
    eret        \* the value returned

svars == <<req, pc, err, run, srcfiles, bandnames, proj, inside, opened, tmpdir,
           vrtFile, nvrt, dstDir, dstFiles, jobs, warped, failed, cube, prev>>

gvars == <<images, function, time, gpc, gsrcfiles, item, temp, groups>>

uvars == <<ua, ub, upc, uresult>>

\* the state of the functions other than stack() and groupbyTime()
mvars == <<mp, cores, multiargs, singleargs, mcpc, mcerr, processlist, called,
           returned>>

rvars == <<file, rows, cols, bands, data, geo, rgeo, rpc, rerr, ops, call, ret, out>>

evars == <<scene, query, epc, eret>>

xvars == <<uvars, mvars, rvars, evars>>

vars == <<svars, gvars, xvars>>

\* ------------------------------------------------------------ helpers
Range(s) == {s[i] : i \in DOMAIN s}

NoDup(s) == \A i, j \in DOMAIN s : s[i] = s[j] => i = j

Min(a, b) == IF a <= b THEN a ELSE b

\* os.path.splitext(os.path.basename(p))[0]: paths of different directories
\* or extensions share a stem
Stem(p) == ((p - 1) % NStems) + 1

\* the caller's name for layer i (no stem)
Label(i) == NStems + i

RECURSIVE dissolve(_)
\* ancillary.dissolve on a list of groups: the members of all groups in order
dissolve(inlist) ==
    IF inlist = <<>> THEN <<>>
    ELSE Head(inlist).m \o dissolve(Tail(inlist))

RECURSIVE Insert(_, _, _)
\* x placed behind the last element whose key is not greater than x's
Insert(x, s, key) ==
    IF s = <<>> THEN <<x>>
    ELSE IF key[x] < key[Head(s)] THEN <<x>> \o s
    ELSE <<Head(s)>> \o Insert(x, Tail(s), key)

RECURSIVE SortedFrom(_, _, _)
SortedFrom(done, rest, key) ==
    IF rest = <<>> THEN done
    ELSE SortedFrom(Insert(Head(rest), done, key), Tail(rest), key)

\* Python's sorted(s, key=...): stable
Sorted(s, key) == SortedFrom(<<>>, s, key)

\* the key sorted() uses on source paths: the path itself for sortfun=None,
\* else the caller's function, here one that reverses the stems
PathKey(sortfun) ==
    [p \in Paths |-> IF sortfun = "none" THEN p ELSE NStems + 1 - Stem(p)]

\* the caller's function on the VRT path of a stem
VrtKey == [s \in Stems |-> NStems + 1 - s]

\* ------------------------------------------------------------ requests
File(p) == [kind |-> "file", m |-> <<p>>]
List(s) == [kind |-> "list", m |-> s]
Vrt(s) == [kind |-> "vrt", m |-> <<s>>]

RECURSIVE Lists(_)
\* the lists of files of S, each file once
Lists(S) ==
    {<<>>} \cup UNION {{<<p>> \o t : t \in Lists(S \ {p})} : p \in S}

\* a group is a file name or a sub-list of file names
GroupVals(S) ==
    {File(p) : p \in S} \cup {List(t) : t \in Lists(S) \ {<<>>}}

RECURSIVE GroupSeqsOf(_)
\* the lists of groups of files of S; a raster is listed once in a request
GroupSeqsOf(S) ==
    {<<>>} \cup UNION {{<<g>> \o t : t \in GroupSeqsOf(S \ Range(g.m))} :
                           g \in GroupVals(S)}

GroupSeqs == GroupSeqsOf(Paths)

NoLayernames == [given |-> FALSE, names |-> <<>>]

Layernames(n) == [given |-> TRUE, names |-> [i \in 1..n |-> Label(i)]]

ResKinds ==
    {[seq |-> "scalar", len |-> 0]}
        \cup [seq : {"list", "tuple"}, len : 1..MaxResLen]

ResPair == [seq |-> "list", len |-> 2]

Resamplings ==
    {"near", "bilinear", "cubic", "cubicspline", "lanczos", "average", "mode",
     "max", "min", "med", "Q1", "Q3"}

\* the layernames tried: none, or a list about as long as srcfiles
ProbeLayernames == {NoLayernames} \cup {Layernames(n) : n \in 0..(NPaths + 1)}

\* requests that probe the argument checks, the other arguments at their defaults
ProbeRequests ==
    {r \in [srcfiles : GroupSeqs, layernames : ProbeLayernames,
            targetres : ResKinds, resampling : {"near", "bogus"},
            shapefile : {FALSE}, sortfun : {"none"}, separate : {FALSE},
            overwrite : {FALSE}] :
        r.layernames.given =>
            Len(r.layernames.names) \in (Len(r.srcfiles) - 1)..(Len(r.srcfiles) + 1)}

\* requests with well-formed layernames, targetres and resampling, without
\* a clip geometry
PipelineRequests ==
    {[srcfiles |-> g,
      layernames |-> IF l THEN Layernames(Len(g)) ELSE NoLayernames,
      targetres |-> ResPair, resampling |-> "near", shapefile |-> FALSE,
      sortfun |-> sf, separate |-> sep, overwrite |-> ow] :
        g \in GroupSeqs, l \in BOOLEAN,
        sf \in {"none", "desc"}, sep \in BOOLEAN, ow \in BOOLEAN}

Requests == ProbeRequests \cup PipelineRequests

\* such requests with a clip geometry, overwrite at its default
ClipRequests ==
    {[srcfiles |-> g,
      layernames |-> IF l THEN Layernames(Len(g)) ELSE NoLayernames,
      targetres |-> ResPair, resampling |-> "near", shapefile |-> TRUE,
      sortfun |-> sf, separate |-> sep, overwrite |-> FALSE] :
        g \in GroupSeqs, l \in BOOLEAN,
        sf \in {"none", "desc"}, sep \in BOOLEAN}

\* the argument checks without the check of the resampling method
M_ArgError(r) ==
    IF r.layernames.given /\ Len(r.layernames.names) # Len(r.srcfiles)
    THEN "layernames"
    ELSE IF r.targetres.seq = "scalar" THEN "typeerror"
    ELSE IF r.targetres.seq # "list" /\ r.targetres.len # 2 THEN "targetres"
    ELSE IF Len(r.srcfiles) = 1 /\ r.srcfiles[1].kind # "list" THEN "onefile"
    ELSE ""

\* ------------------------------------------------------------ stack(): pure parts
\* lines 441-453: the exception of the argument checks ("" if they pass)
ArgError(r) ==
    IF r.layernames.given /\ Len(r.layernames.names) # Len(r.srcfiles)
    THEN "layernames"
    ELSE IF r.targetres.seq = "scalar" THEN "typeerror"
    ELSE IF r.targetres.seq # "list" /\ r.targetres.len # 2 THEN "targetres"
    ELSE IF Len(r.srcfiles) = 1 /\ r.srcfiles[1].kind # "list" THEN "onefile"
    ELSE IF r.resampling \notin Resamplings THEN "resampling"
    ELSE ""

\* the projection check taking the first projection whatever the others are
M_ProjectionError(projections) ==
    IF projections = {} THEN "index" ELSE ""

\* lines 455-459: the exception of the projection check ("" if it passes)
ProjectionError(projections) ==
    IF Cardinality(projections) > 1 THEN "projection"
    ELSE IF projections = {} THEN "index"
    ELSE ""

None == [kind |-> "none", m |-> <<>>]

\* a group of one left as a list
M_ClipGroup(g, ins, sortfun) ==
    LET group == IF g.kind = "list" THEN Sorted(g.m, PathKey(sortfun)) ELSE g.m
        kept == SelectSeq(group, LAMBDA x : x \in ins)
    IN  IF Len(kept) >= 1 THEN List(kept) ELSE None

\* lines 468-475: what the shapefile leaves of one group
ClipGroup(g, ins, sortfun) ==
    LET group == IF g.kind = "list" THEN Sorted(g.m, PathKey(sortfun)) ELSE g.m
        kept == SelectSeq(group, LAMBDA x : x \in ins)
    IN  IF Len(kept) > 1 THEN List(kept)
        ELSE IF Len(kept) = 1 THEN File(kept[1])
        ELSE None

\* lines 467-476: the groups the shapefile leaves
ClipGroups(grps, ins, sortfun) ==
    SelectSeq([i \in DOMAIN grps |-> ClipGroup(grps[i], ins, sortfun)],
              LAMBDA g : g # None)

\* the VRT named after the last member
M_VrtName(g) == Stem(g.m[Len(g.m)])

\* lines 503-504: the VRT of a group is named after its first member
VrtName(g) == Stem(g.m[1])

NoVrt == [s \in 0..NStems |-> <<>>]

RECURSIVE BuildAll(_, _)
\* lines 502-506: gdalbuildvrt for one group after the other, a later VRT of
\* the same name replacing the earlier one
BuildAll(files, grps) ==
    IF grps = <<>> THEN files
    ELSE BuildAll([files EXCEPT ![VrtName(Head(grps))] = Head(grps).m],
                  Tail(grps))

\* line 513
BandNames(r, vrts) ==
    IF r.layernames.given THEN r.layernames.names
    ELSE [i \in DOMAIN vrts |-> vrts[i].m[1]]

\* zip(srcfiles, dstfiles) of lines 520, 522
Zip(vrts, names) ==
    [i \in 1..Min(Len(vrts), Len(names)) |-> [src |-> vrts[i].m[1], dst |-> names[i]]]

\* every pair warped, whether its destination exists or not
M_Files(pairs, overwrite, existing) == pairs

\* lines 519-522: the pairs to warp
Files(pairs, overwrite, existing) ==
    IF overwrite THEN pairs
    ELSE SelectSeq(pairs, LAMBDA x : x.dst \notin existing)

\* shutil.rmtree(tmpdir), lines 525 and 545: the directory after it
Rmtree(dir) == FALSE

\* the files left behind
M_RmtreeFiles(files) == files

\* ... and the files in it
RmtreeFiles(files) == NoVrt

NoCube == [written |-> FALSE, bands |-> <<>>, names |-> <<>>]

FirstCall == [ran |-> FALSE, complete |-> FALSE]

Used(r) == Range(dissolve(r.srcfiles))

\* projections are told apart, never named: the first raster listed has number 1
FirstIsOne(pr, listed) == listed # <<>> => pr[listed[1]] = 1

\* ------------------------------------------------------------ stack(): steps
\* no groupbyTime call is under way
\* no union call is under way
UnionIdle ==
    /\ ua = <<>>
    /\ ub = <<>>
    /\ upc = "idle"
    /\ uresult = <<>>

\* Python's None as a return value
ReturnedNone == [none |-> TRUE, list |-> <<>>]

\* no multicore call of its own is under way
MulticoreIdle ==
    /\ mp = FALSE
    /\ cores = 0
    /\ multiargs = [x |-> <<>>]
    /\ singleargs = [z |-> 0]
    /\ mcpc = "idle"
    /\ mcerr = ""
    /\ processlist = <<>>
    /\ called = <<>>
    /\ returned = ReturnedNone

\* an array of no rows
NoArray == [shape |-> <<0, 0>>, at |-> <<>>]

NoCall == [method |-> "", band |-> 0, dim |-> <<>>]

NoOut == [written |-> FALSE, cols |-> 0, rows |-> 0, origin |-> <<0, 0>>,
          bands |-> <<>>]

\* no Raster object is at hand
RasterIdle ==
    /\ file = [rows |-> 0, cols |-> 0, bands |-> 0, valid |-> {}]
    /\ rows = 0
    /\ cols = 0
    /\ bands = 0
    /\ data = <<>>
    /\ geo = <<0, 0>>
    /\ rgeo = <<0, 0>>
    /\ rpc = "idle"
    /\ rerr = ""
    /\ ops = <<>>
    /\ call = NoCall
    /\ ret = NoArray
    /\ out = NoOut

\* no extract call is under way
ExtractIdle ==
    /\ scene = [rows |-> 0, cols |-> 0, pos |-> <<0, 0>>, val |-> 0, fill |-> 0]
    /\ query = [px |-> 0, py |-> 0, radius |-> 0, no_data |-> 0]
    /\ epc = "idle"
    /\ eret = 0

\* none of the other functions is under way
RestIdle ==
    /\ UnionIdle
    /\ MulticoreIdle
    /\ RasterIdle
    /\ ExtractIdle

GroupIdle ==
    /\ images = <<>>
    /\ function = [i \in 1..NImages |-> 0]
    /\ time = 0
    /\ gpc = "idle"
    /\ gsrcfiles = <<>>
    /\ item = 0
    /\ temp = <<>>
    /\ groups = <<>>

OnlyStack == UNCHANGED <<gvars, xvars>>

\* before the first statement of a first call
Fresh ==
    /\ err = ""
    /\ run = 1
    /\ srcfiles = req.srcfiles
    /\ bandnames = <<>>
    /\ proj = [p \in Paths |-> 0]
    /\ inside = {}
    /\ opened = {}
    /\ tmpdir = FALSE
    /\ vrtFile = NoVrt
    /\ nvrt = 0
    /\ dstDir = FALSE
    /\ dstFiles = {}
    /\ jobs = <<>>
    /\ warped = {}
    /\ failed = {}
    /\ cube = NoCube
    /\ prev = FirstCall

Init ==
    /\ GroupIdle
    /\ RestIdle
    /\ req \in Requests
    /\ pc = "start"
    /\ Fresh

Raise(e) ==
    /\ pc' = "error"
    /\ err' = e

\* lines 440-453
CheckArgs ==
    /\ pc = "start"
    /\ IF ArgError(req) # "" THEN Raise(ArgError(req))
       ELSE pc' = "open" /\ UNCHANGED err
    /\ UNCHANGED <<req, run, srcfiles, bandnames, proj, inside, opened, tmpdir,
                   vrtFile, nvrt, dstDir, dstFiles, jobs, warped, failed, cube, prev>>
    /\ OnlyStack

\* lines 455-459: every source is opened and its projection read
ReadProjections ==
    /\ pc = "open"
    /\ IF run = 1
       THEN \E pr \in [Paths -> 0..NProj] :
                /\ \A p \in Paths : pr[p] = 0 <=> p \notin Used(req)
                /\ FirstIsOne(pr, dissolve(req.srcfiles))
                /\ proj' = pr
       ELSE UNCHANGED proj
    /\ opened' = Range(dissolve(srcfiles))
    /\ LET projections == {proj'[x] : x \in Range(dissolve(srcfiles))}
       IN  IF ProjectionError(projections) # ""
           THEN Raise(ProjectionError(projections))
           ELSE pc' = "clip" /\ UNCHANGED err
    /\ UNCHANGED <<req, run, srcfiles, bandnames, inside, tmpdir, vrtFile, nvrt,
                   dstDir, dstFiles, jobs, warped, failed, cube, prev>>
    /\ OnlyStack

\* line 462: no shapefile is given
SkipClip ==
    /\ pc = "clip"
    /\ ~req.shapefile
    /\ pc' = "tmp"
    /\ UNCHANGED <<req, err, run, srcfiles, bandnames, proj, inside, opened, tmpdir,
                   vrtFile, nvrt, dstDir, dstFiles, jobs, warped, failed, cube, prev>>
    /\ OnlyStack

\* lines 462-478: the sources inside the shapefile are kept
ClipToShapefile ==
    /\ pc = "clip"
    /\ req.shapefile
    /\ IF run = 1
       THEN \E ins \in SUBSET Used(req) : inside' = ins
       ELSE UNCHANGED inside
    /\ srcfiles' = ClipGroups(srcfiles, inside', req.sortfun)
    /\ pc' = "tmp"
    /\ UNCHANGED <<req, err, run, bandnames, proj, opened, tmpdir, vrtFile, nvrt,
                   dstDir, dstFiles, jobs, warped, failed, cube, prev>>
    /\ OnlyStack

\* lines 480-499: the temporary directory, then the options, which index targetres
MakeTmpdir ==
    /\ pc = "tmp"
    /\ tmpdir' = TRUE
    /\ IF req.targetres.len < 2 THEN Raise("index")
       ELSE pc' = "vrt" /\ UNCHANGED err
    /\ UNCHANGED <<req, run, srcfiles, bandnames, proj, inside, opened, vrtFile,
                   nvrt, dstDir, dstFiles, jobs, warped, failed, cube, prev>>
    /\ OnlyStack

\* lines 501-506
BuildVRTs ==
    /\ pc = "vrt"
    /\ vrtFile' = BuildAll(vrtFile, srcfiles)
    /\ nvrt' = nvrt + Len(srcfiles)
    /\ srcfiles' = [i \in DOMAIN srcfiles |-> Vrt(VrtName(srcfiles[i]))]
    /\ pc' = "name"
    /\ UNCHANGED <<req, err, run, bandnames, proj, inside, opened, tmpdir, dstDir,
                   dstFiles, jobs, warped, failed, cube, prev>>
    /\ OnlyStack

\* lines 508-513
NameBands ==
    /\ pc = "name"
    /\ srcfiles' =
           IF ~req.layernames.given /\ req.sortfun # "none"
           THEN Sorted(srcfiles, [v \in Range(srcfiles) |-> VrtKey[v.m[1]]])
           ELSE srcfiles
    /\ bandnames' = BandNames(req, srcfiles')
    /\ pc' = "branch"
    /\ UNCHANGED <<req, err, run, proj, inside, opened, tmpdir, vrtFile, nvrt,
                   dstDir, dstFiles, jobs, warped, failed, cube, prev>>
    /\ OnlyStack

\* lines 515-527: the separate outputs
SelectTiles ==
    /\ pc = "branch"
    /\ req.separate \/ Len(srcfiles) = 1
    /\ dstDir' = TRUE
    /\ LET files == Files(Zip(srcfiles, bandnames), req.overwrite, dstFiles)
       IN  IF ~req.overwrite /\ files = <<>>
           THEN /\ tmpdir' = Rmtree(tmpdir)
                /\ vrtFile' = RmtreeFiles(vrtFile)
                /\ pc' = "done"
                /\ UNCHANGED <<err, jobs>>
           ELSE IF files = <<>>
           THEN Raise("unpack") /\ UNCHANGED <<tmpdir, vrtFile, jobs>>
           ELSE /\ jobs' = files
                /\ pc' = "warp"
                /\ UNCHANGED <<err, tmpdir, vrtFile>>
    /\ UNCHANGED <<req, run, srcfiles, bandnames, proj, inside, opened, nvrt,
                   dstFiles, warped, failed, cube, prev>>
    /\ OnlyStack

\* ancillary.multicore, lines 156-160: without pathos nothing is run
MulticoreNoPathos ==
    /\ pc = "warp"
    /\ pc' = "cleanup"
    /\ UNCHANGED <<req, err, run, srcfiles, bandnames, proj, inside, opened, tmpdir,
                   vrtFile, nvrt, dstDir, dstFiles, jobs, warped, failed, cube, prev>>
    /\ OnlyStack

\* ancillary.multicore, lines 161-195: the pool calls gdalwarp for every pair;
\* the results, and with them the exceptions, are never fetched
MulticoreRun ==
    /\ pc = "warp"
    /\ \E bad \in SUBSET DOMAIN jobs :
          /\ warped' = Range(jobs)
          /\ failed' = {jobs[i] : i \in bad}
          /\ dstFiles' = dstFiles \cup {jobs[i].dst : i \in DOMAIN jobs \ bad}
    /\ pc' = "cleanup"
    /\ UNCHANGED <<req, err, run, srcfiles, bandnames, proj, inside, opened, tmpdir,
                   vrtFile, nvrt, dstDir, jobs, cube, prev>>
    /\ OnlyStack

\* lines 531-542: the combined output, the warp succeeding
StackCubeOk ==
    /\ pc = "branch"
    /\ ~(req.separate \/ Len(srcfiles) = 1)
    /\ srcfiles # <<>>
    /\ vrtFile' = [vrtFile EXCEPT ![0] = [i \in DOMAIN srcfiles |-> srcfiles[i].m[1]]]
    /\ nvrt' = nvrt + 1
    /\ cube' = [written |-> TRUE,
                bands |-> [i \in DOMAIN srcfiles |-> vrtFile[srcfiles[i].m[1]]],
                names |-> bandnames]
    /\ pc' = "cleanup"
    /\ UNCHANGED <<req, err, run, srcfiles, bandnames, proj, inside, opened, tmpdir,
                   dstDir, dstFiles, jobs, warped, failed, prev>>
    /\ OnlyStack

\* lines 531-537: gdalbuildvrt or gdalwarp raises (always so without sources)
StackCubeFail ==
    /\ pc = "branch"
    /\ ~(req.separate \/ Len(srcfiles) = 1)
    /\ nvrt' = nvrt + 1
    /\ \E built \in BOOLEAN :
          /\ built => srcfiles # <<>>
          /\ vrtFile' = IF built
                        THEN [vrtFile EXCEPT ![0] =
                                 [i \in DOMAIN srcfiles |-> srcfiles[i].m[1]]]
                        ELSE vrtFile
    /\ Raise("gdal")
    /\ UNCHANGED <<req, run, srcfiles, bandnames, proj, inside, opened, tmpdir,
                   dstDir, dstFiles, jobs, warped, failed, cube, prev>>
    /\ OnlyStack

\* lines 544-545
Cleanup ==
    /\ pc = "cleanup"
    /\ tmpdir' = Rmtree(tmpdir)
    /\ vrtFile' = RmtreeFiles(vrtFile)
    /\ pc' = "done"
    /\ UNCHANGED <<req, err, run, srcfiles, bandnames, proj, inside, opened, nvrt,
                   dstDir, dstFiles, jobs, warped, failed, cube, prev>>
    /\ OnlyStack

\* the caller repeats the request after a normal return; the files stay
Rerun ==
    /\ pc = "done"
    /\ run = 1
    /\ run' = 2
    /\ pc' = "start"
    /\ srcfiles' = req.srcfiles
    /\ bandnames' = <<>>
    /\ opened' = {}
    /\ nvrt' = 0
    /\ jobs' = <<>>
    /\ warped' = {}
    /\ failed' = {}
    /\ prev' = [ran |-> TRUE,
                complete |-> failed = {} /\ warped = Range(jobs)]
    /\ UNCHANGED <<req, err, proj, inside, tmpdir, vrtFile, dstDir, dstFiles, cube>>
    /\ OnlyStack

\* the steps before the clip
Front ==
    \/ CheckArgs
    \/ ReadProjections

\* the steps after the clip
Back ==
    \/ MakeTmpdir
    \/ BuildVRTs
    \/ NameBands
    \/ SelectTiles
    \/ MulticoreNoPathos
    \/ MulticoreRun
    \/ StackCubeOk
    \/ StackCubeFail
    \/ Cleanup

\* a call without a clip geometry, which the caller may repeat
Next ==
    \/ Front
    \/ SkipClip
    \/ Back
    \/ Rerun

Spec == Init /\ [][Next]_vars

ClipInit ==
    /\ GroupIdle
    /\ RestIdle
    /\ req \in ClipRequests
    /\ pc = "start"
    /\ Fresh

\* a call with a clip geometry
ClipNext ==
    \/ Front
    \/ ClipToShapefile
    \/ Back

SpecClip == ClipInit /\ [][ClipNext]_vars

\* ------------------------------------------------------------ groupbyTime()
Images == 1..NImages

\* an image is listed once
ImageLists == {s \in UNION {[1..n -> Images] : n \in 0..NImages} : NoDup(s)}

\* line 127: whether the item joins the group of the item before it
Close(a, b, t) ==
    LET d == IF a >= b THEN a - b ELSE b - a
    IN  0 < d /\ d < t

\* line 130: a group of one is appended as the bare item
Group(t) == IF Len(t) > 1 THEN List(t) ELSE File(t[1])

IdleRequest ==
    [srcfiles |-> <<>>, layernames |-> NoLayernames, targetres |-> ResPair,
     resampling |-> "near", shapefile |-> FALSE, sortfun |-> "none",
     separate |-> FALSE, overwrite |-> FALSE]

\* no stack call is under way
StackIdle ==
    /\ req = IdleRequest
    /\ pc = "idle"
    /\ Fresh

OnlyGroup == UNCHANGED <<svars, xvars>>

GroupInit ==
    /\ StackIdle
    /\ RestIdle
    /\ images \in ImageLists
    /\ function \in [Images -> 0..MaxKey]
    /\ time \in 0..MaxTime
    /\ gpc = "sort"
    /\ gsrcfiles = <<>>
    /\ item = 0
    /\ temp = <<>>
    /\ groups = <<>>

\* lines 118-122
SortImages ==
    /\ gpc = "sort"
    /\ gsrcfiles' = Sorted(images, function)
    /\ groups' = <<>>
    /\ temp' = <<>>
    /\ item' = 1
    /\ gpc' = "scan"
    /\ UNCHANGED <<images, function, time>>
    /\ OnlyGroup

\* lines 123-131: one turn of the loop
Scan ==
    /\ gpc = "scan"
    /\ item <= Len(gsrcfiles)
    /\ LET x == gsrcfiles[item]
       IN  IF Len(temp) = 0
           THEN temp' = Append(temp, x) /\ UNCHANGED groups
           ELSE IF Close(function[x], function[temp[Len(temp)]], time)
           THEN temp' = Append(temp, x) /\ UNCHANGED groups
           ELSE groups' = Append(groups, Group(temp)) /\ temp' = <<x>>
    /\ item' = item + 1
    /\ UNCHANGED <<images, function, time, gpc, gsrcfiles>>
    /\ OnlyGroup

\* line 132: groups is returned as the loop left it
Return ==
    /\ gpc = "scan"
    /\ item > Len(gsrcfiles)
    /\ gpc' = "done"
    /\ UNCHANGED <<images, function, time, gsrcfiles, item, temp, groups>>
    /\ OnlyGroup

GroupNext ==
    \/ SortImages
    \/ Scan
    \/ Return

SpecGroup == GroupInit /\ [][GroupNext]_vars


\* ------------------------------------------------------------ union()
Elems == 1..NElems

\* the lists of elements, an element possibly more than once
ElemLists == UNION {[1..n -> Elems] : n \in 0..MaxListLen}

\* list(S): the elements of a set in some order, each once
ListsOf(S) == {l \in Lists(S) : Len(l) = Cardinality(S)}

\* line 378: set(a) & set(b)
SetOfBoth(x, y) == Range(x) \cap Range(y)

OnlyUnion == UNCHANGED <<svars, gvars, mvars, rvars, evars>>

UnionInit ==
    /\ StackIdle
    /\ GroupIdle
    /\ MulticoreIdle
    /\ RasterIdle
    /\ ExtractIdle
    /\ ua \in ElemLists
    /\ ub \in ElemLists
    /\ upc = "call"
    /\ uresult = <<>>

\* lines 374-378
Union ==
    /\ upc = "call"
    /\ uresult' \in ListsOf(SetOfBoth(ua, ub))
    /\ upc' = "done"
    /\ UNCHANGED <<ua, ub>>
    /\ OnlyUnion

UnionNext == Union

SpecUnion == UnionInit /\ [][UnionNext]_vars

\* ------------------------------------------------------------ multicore()
\* the values of the docstring's example: x of 1, 2; y of 5, 6; z = 9
XVals == {1, 2}
YVals == {5, 6}
ZVal == 9

\* line 149-150: the function of the docstring
add(d) == d.x + d.y + d.z

ArgLists(V) == UNION {[1..n -> V] : n \in 0..MaxArgs}

\* multiargs={'x': [...]}, y=., z=.  or  multiargs={'x': [...], 'y': [...]}, z=.
MulticoreCalls ==
    {[multi |-> [x |-> xs], single |-> [y |-> y, z |-> ZVal]] :
        xs \in ArgLists(XVals), y \in YVals}
    \cup {[multi |-> [x |-> xs, y |-> ys], single |-> [z |-> ZVal]] :
        xs \in ArgLists(XVals), ys \in ArgLists(YVals)}

\* line 174: the lengths of the argument lists
ArgLengths(multi) == {Len(multi[k]) : k \in DOMAIN multi}

\* lines 182-183: the arguments of call i, dictmerge of the i-th entries
\* and singleargs
ProcessArgs(multi, single, i) ==
    [k \in DOMAIN multi \cup DOMAIN single |->
        IF k \in DOMAIN single THEN single[k] ELSE multi[k][i]]

OnlyMulticore == UNCHANGED <<svars, gvars, uvars, rvars, evars>>

MulticoreInit ==
    /\ StackIdle
    /\ GroupIdle
    /\ UnionIdle
    /\ RasterIdle
    /\ ExtractIdle
    /\ mp \in BOOLEAN
    /\ cores \in 1..MaxArgs
    /\ \E c \in MulticoreCalls :
          /\ multiargs = c.multi
          /\ singleargs = c.single
    /\ mcpc = "check"
    /\ mcerr = ""
    /\ processlist = <<>>
    /\ called = <<>>
    /\ returned = ReturnedNone

\* lines 156-176: without pathos the call returns at once; argument lists of
\* different lengths raise
McCheck ==
    /\ mcpc = "check"
    /\ IF ~mp THEN mcpc' = "done" /\ UNCHANGED mcerr
       ELSE IF Cardinality(ArgLengths(multiargs)) > 1
       THEN mcpc' = "error" /\ mcerr' = "AttributeError"
       ELSE mcpc' = "list" /\ UNCHANGED mcerr
    /\ UNCHANGED <<mp, cores, multiargs, singleargs, processlist, called, returned>>
    /\ OnlyMulticore

\* lines 178-183
McProcesslist ==
    /\ mcpc = "list"
    /\ cores' = Min(cores, Len(multiargs.x))
    /\ processlist' = [i \in 1..Len(multiargs.x) |->
                           ProcessArgs(multiargs, singleargs, i)]
    /\ mcpc' = "pool"
    /\ UNCHANGED <<mp, multiargs, singleargs, mcerr, called, returned>>
    /\ OnlyMulticore

\* lines 186-192: a pool of no process raises; else the pool calls function
\* for every entry, and the iterator of the results is left alone
McPool ==
    /\ mcpc = "pool"
    /\ IF cores < 1
       THEN mcpc' = "error" /\ mcerr' = "ValueError" /\ UNCHANGED called
       ELSE /\ called' = [i \in DOMAIN processlist |-> 1]
            /\ mcpc' = "return"
            /\ UNCHANGED mcerr
    /\ UNCHANGED <<mp, cores, multiargs, singleargs, processlist, returned>>
    /\ OnlyMulticore

\* lines 194-202: the end of the function is reached without a return statement
McReturn ==
    /\ mcpc = "return"
    /\ returned' = ReturnedNone
    /\ mcpc' = "done"
    /\ UNCHANGED <<mp, cores, multiargs, singleargs, mcerr, processlist, called>>
    /\ OnlyMulticore

MulticoreNext ==
    \/ McCheck
    \/ McProcesslist
    \/ McPool
    \/ McReturn

SpecMulticore == MulticoreInit /\ [][MulticoreNext]_vars

\* ------------------------------------------------------------ Raster: arrays
Max(x, y) == IF x >= y THEN x ELSE y

\* the no data value of the file
NoData == 0

\* the value of a valid pixel: no two pixels of a file are alike
PixelId(b, r, c) == ((b - 1) * MaxSide + (r - 1)) * MaxSide + c

\* the pixel of band b in row r, column c of the file (counted from 1)
Pix(f, b, r, c) == IF <<r, c>> \in f.valid THEN PixelId(b, r, c) ELSE NoData

\* a 2-D array of r rows and c columns, at[i][j] at row i, column j
Array(r, c, at) == [shape |-> <<r, c>>, at |-> at]

\* dim='full' (lines 227, 242, 372)
Full == <<>>

FullDim == <<0, 0, cols, rows>>

\* whether GDAL can read or create the window dim = (xoff, yoff, xsize, ysize)
InFile(f, dim) ==
    /\ dim[3] >= 1
    /\ dim[4] >= 1
    /\ dim[1] + dim[3] <= f.cols
    /\ dim[2] + dim[4] <= f.rows

\* GetRasterBand(band).ReadAsArray(xoff, yoff, xsize, ysize): ysize rows
\* from row yoff on, xsize columns from column xoff on
ReadAsArray(f, band, dim) ==
    Array(dim[4], dim[3],
          [i \in 1..dim[4] |-> [j \in 1..dim[3] |->
              Pix(f, band, dim[2] + i, dim[1] + j)]])

\* numpy's A[r0:r1, c0:c1], the bounds cut to the array
Slice(A, r0, r1, c0, c1) ==
    LET r == Max(0, Min(r1, A.shape[1]) - r0)
        c == Max(0, Min(c1, A.shape[2]) - c0)
    IN  Array(r, c, [i \in 1..r |-> [j \in 1..c |-> A.at[r0 + i][c0 + j]]])

\* lines 242-246: matrix(band, dim) on the cache d; ok is FALSE if GDAL fails
matrix(d, band, dim) ==
    LET dm == IF dim = Full THEN FullDim ELSE dim
    IN  IF Len(d) >= band
        THEN [ok |-> TRUE, a |-> Slice(d[band], dm[2], dm[4], dm[1], dm[3])]
        ELSE IF band <= file.bands /\ InFile(file, dm)
        THEN [ok |-> TRUE, a |-> ReadAsArray(file, band, dm)]
        ELSE [ok |-> FALSE, a |-> NoArray]

RECURSIVE LoadFrom(_, _)
\* lines 228-229: the cache after the turns i, i+1, ... of the loop of load()
LoadFrom(d, i) ==
    IF i > bands THEN [ok |-> TRUE, d |-> d]
    ELSE IF ~matrix(d, i, Full).ok THEN [ok |-> FALSE, d |-> d]
    ELSE LoadFrom(Append(d, matrix(d, i, Full).a), i + 1)

\* the indices of a list of booleans that are TRUE
Trues(mask) == {i \in DOMAIN mask : mask[i]}

Lowest(S) == CHOOSE x \in S : \A y \in S : x <= y

Highest(S) == CHOOSE x \in S : \A y \in S : x >= y

\* line 296: the columns that are not all no data
Mask1(mat) ==
    [j \in 1..mat.shape[2] |-> \E i \in 1..mat.shape[1] : mat.at[i][j] # NoData]

\* line 297: the rows that are not all no data
Mask2(mat) ==
    [i \in 1..mat.shape[1] |-> \E j \in 1..mat.shape[2] : mat.at[i][j] # NoData]

\* lines 301-304: [left, top, cols, rows]
Bounding(mat) ==
    <<Lowest(Trues(Mask1(mat))) - 1,
      Lowest(Trues(Mask2(mat))) - 1,
      Highest(Trues(Mask1(mat))) - Lowest(Trues(Mask1(mat))) + 1,
      Highest(Trues(Mask2(mat))) - Lowest(Trues(Mask2(mat))) + 1>>

\* the k-th smallest element of a set of numbers
RECURSIVE Kth(_, _)
Kth(S, k) == IF k = 1 THEN Lowest(S) ELSE Kth(S \ {Lowest(S)}, k - 1)

\* lines 306-307: mat[mask2, :][:, mask1]
Masked(mat) ==
    LET keptRows == Trues(Mask2(mat))
        keptCols == Trues(Mask1(mat))
    IN  Array(Cardinality(keptRows), Cardinality(keptCols),
              [i \in 1..Cardinality(keptRows) |->
                  [j \in 1..Cardinality(keptCols) |->
                      mat.at[Kth(keptRows, i)][Kth(keptCols, j)]]])

\* lines 288-291: the exception of the statistics check ("" if it passes);
\* without a valid pixel the statistics are None
StatsError(f) ==
    IF f.valid = {} THEN "TypeError"
    ELSE IF Cardinality(f.valid) = 1 THEN "ValueError"
    ELSE ""

\* ------------------------------------------------------------ Raster: methods
OnlyRaster == UNCHANGED <<svars, gvars, uvars, mvars, evars>>

Positions(r, c) == (1..r) \X (1..c)

\* the windows (col_off, row_off, width, height) inside the raster
Windows ==
    {d \in (0..(MaxSide - 1)) \X (0..(MaxSide - 1)) \X (1..MaxSide) \X (1..MaxSide) :
        d[1] + d[3] <= cols /\ d[2] + d[4] <= rows}

\* the call returns to the caller, who may call again
Returns ==
    /\ rpc' = "ready"
    /\ rerr' = ""

Raises(e) ==
    /\ rpc' = "raised"
    /\ rerr' = e

\* lines 93-116: assign(array, dim) as the last statement of a method.
\* SetGeoTransform on the dataset opened read-only takes effect or raises,
\* as the driver has it.
AssignTo(array, dim) ==
    /\ data' = <<array>>
    /\ IF dim = Full
       THEN Returns /\ UNCHANGED <<rows, cols, bands, geo, rgeo>>
       ELSE /\ bands' = 1
            /\ rows' = array.shape[1]
            /\ cols' = array.shape[2]
            /\ geo' = <<geo[1] + dim[1], geo[2] - dim[2]>>
            /\ \/ rgeo' = geo' /\ Returns
               \/ UNCHANGED rgeo /\ Raises("RuntimeError")

RECURSIVE WriteBands(_, _, _)
\* lines 380-385: the arrays written to the bands i, i+1, ... after those of acc
WriteBands(dm, i, acc) ==
    IF i > bands THEN [err |-> "", bands |-> acc]
    ELSE IF Len(data) = 0
    THEN IF i <= file.bands /\ InFile(file, dm)
         THEN WriteBands(dm, i + 1, Append(acc, ReadAsArray(file, i, dm)))
         ELSE [err |-> "RuntimeError", bands |-> acc]
    ELSE IF Len(data) < i THEN [err |-> "IndexError", bands |-> acc]
    ELSE IF data[i].shape[1] > dm[4] \/ data[i].shape[2] > dm[3]
    THEN [err |-> "ValueError", bands |-> acc]
    ELSE WriteBands(dm, i + 1, Append(acc, data[i]))

\* lines 366-388: write(outname, dim=dim) as the last statement of a method
WriteTo(dim) ==
    LET dm == IF dim = Full THEN FullDim ELSE dim
        g == IF dim = Full THEN rgeo
             ELSE <<rgeo[1] + dim[1], rgeo[2] - dim[2]>>
        w == WriteBands(dm, 1, <<>>)
    IN  IF dm[3] < 1 \/ dm[4] < 1
        THEN Raises("RuntimeError") /\ UNCHANGED out
        ELSE /\ out' = [written |-> TRUE, cols |-> dm[3], rows |-> dm[4],
                        origin |-> g, bands |-> w.bands]
             /\ IF w.err = "" THEN rpc' = "returned" /\ rerr' = ""
                ELSE Raises(w.err)

\* a method that changes the object is called
Mutator(name) ==
    /\ rpc = "ready"
    /\ Len(ops) < MaxOps
    /\ ops' = Append(ops, name)
    /\ UNCHANGED <<file, call, ret, out>>
    /\ OnlyRaster

\* lines 217-229: load()
Load ==
    /\ Mutator("load")
    /\ data' = LoadFrom(data, 1).d
    /\ IF LoadFrom(data, 1).ok THEN Returns ELSE Raises("RuntimeError")
    /\ UNCHANGED <<rows, cols, bands, geo, rgeo>>

\* lines 93-116: the caller's assign(array) with an array of the object's size
Assign ==
    /\ Mutator("assign")
    /\ AssignTo(Array(rows, cols, [i \in 1..rows |-> [j \in 1..cols |-> 1]]),
                Full)

\* lines 314-337: rescale(function), the function multiplying by k
Rescale ==
    /\ Mutator("rescale")
    /\ \E k \in {1, 2} :
          IF bands # 1 \/ ~matrix(data, 1, Full).ok
          THEN /\ Raises(IF bands # 1 THEN "ValueError" ELSE "RuntimeError")
               /\ UNCHANGED <<rows, cols, bands, data, geo, rgeo>>
          ELSE LET mat == matrix(data, 1, Full).a
               IN  AssignTo(Array(mat.shape[1], mat.shape[2],
                                  [i \in 1..mat.shape[1] |->
                                      [j \in 1..mat.shape[2] |->
                                          k * mat.at[i][j]]]), Full)

\* lines 285-304: the exception reduce() ends with before it assigns or
\* writes ("" if none)
ReduceError ==
    IF bands # 1 THEN "ValueError"
    ELSE IF StatsError(file) # "" THEN StatsError(file)
    ELSE IF ~matrix(data, 1, Full).ok THEN "RuntimeError"
    ELSE IF Trues(Mask1(matrix(data, 1, Full).a)) = {} THEN "ValueError"
    ELSE ""

\* lines 274-310: reduce()
Reduce ==
    /\ Mutator("reduce")
    /\ IF ReduceError # ""
       THEN Raises(ReduceError) /\ UNCHANGED <<rows, cols, bands, data, geo, rgeo>>
       ELSE LET mat == matrix(data, 1, Full).a
            IN  AssignTo(Masked(mat), Bounding(mat))

\* a method is called whose result is looked at
Observer ==
    /\ rpc = "ready"
    /\ UNCHANGED <<file, rows, cols, bands, data, geo, rgeo, ops>>
    /\ OnlyRaster

\* lines 274-312: reduce(outname=...)
ReduceWrite ==
    /\ Observer
    /\ UNCHANGED ret
    /\ IF ReduceError # ""
       THEN /\ Raises(ReduceError)
            /\ call' = [method |-> "reduce", band |-> 1, dim |-> Full]
            /\ UNCHANGED out
       ELSE LET dim == Bounding(matrix(data, 1, Full).a)
            IN  /\ call' = [method |-> "reduce", band |-> 1, dim |-> dim]
                /\ WriteTo(dim)

\* lines 231-246: matrix(band, dim)
MatrixCall ==
    /\ Observer
    /\ UNCHANGED out
    /\ \E band \in 1..bands, dim \in Windows \cup {Full} :
          /\ call' = [method |-> "matrix", band |-> band, dim |-> dim]
          /\ ret' = matrix(data, band, dim).a
          /\ IF matrix(data, band, dim).ok
             THEN rpc' = "returned" /\ rerr' = ""
             ELSE Raises("RuntimeError")

\* lines 339-388: write(outname, dim=dim)
WriteCall ==
    /\ Observer
    /\ UNCHANGED ret
    /\ \E dim \in Windows \cup {Full} :
          /\ call' = [method |-> "write", band |-> 0, dim |-> dim]
          /\ WriteTo(dim)

\* the raster files, every pixel valid
RasterFiles ==
    {[rows |-> r, cols |-> c, bands |-> b, valid |-> Positions(r, c)] :
        r \in 1..MaxSide, c \in 1..MaxSide, b \in 1..MaxBands}

\* the raster files of one band and r rows, c columns, any of the pixels no data
SparseFiles(r, c) ==
    [rows : {r}, cols : {c}, bands : {1}, valid : SUBSET Positions(r, c)]

\* lines 41-75: Raster(filename)
Opened(f) ==
    /\ StackIdle
    /\ GroupIdle
    /\ UnionIdle
    /\ MulticoreIdle
    /\ ExtractIdle
    /\ file = f
    /\ rows = f.rows
    /\ cols = f.cols
    /\ bands = f.bands
    /\ data = <<>>
    /\ geo = <<0, 0>>
    /\ rgeo = <<0, 0>>
    /\ rpc = "ready"
    /\ rerr = ""
    /\ ops = <<>>
    /\ call = NoCall
    /\ ret = NoArray
    /\ out = NoOut

RasterInit == \E f \in RasterFiles : Opened(f)

RasterNext ==
    \/ Load
    \/ Assign
    \/ Rescale
    \/ Reduce
    \/ ReduceWrite
    \/ MatrixCall
    \/ WriteCall

SpecRaster == RasterInit /\ [][RasterNext]_vars

ReduceInit ==
    \E r \in 1..MaxSide, c \in 1..MaxSide :
        \E f \in SparseFiles(r, c) : Opened(f)

ReduceNext ==
    \/ Load
    \/ Reduce
    \/ ReduceWrite

SpecReduce == ReduceInit /\ [][ReduceNext]_vars

\* ------------------------------------------------------------ Raster.extract()
\* self.res: a pixel is two units wide and high, so that half a pixel
\* (hx, hy of lines 155-156) is a whole number
Res == 2

\* the pixel values and the no data values tried
PixelVals == {0 - 1, 0, 1, 2}

NoDataVals == {0 - 1, 0}

\* self.geo['xmin'] and self.geo['ymax'] of the raster s
GeoXmin == 0

GeoYmax(s) == Res * s.rows

\* lines 162-173: the window of pixel indices, counted from 0
XMinOf(s, q) == Max(0, (q.px - GeoXmin - Res * q.radius) \div Res)

YMinOf(s, q) == Max(0, (GeoYmax(s) - q.py - Res * q.radius) \div Res)

XMaxOf(s, q) == Min(s.cols, (q.px - GeoXmin + Res * q.radius) \div Res + 2)

YMaxOf(s, q) == Min(s.rows, (GeoYmax(s) - q.py + Res * q.radius) \div Res + 2)

\* line 184: the pixel in column x, row y (counted from 0)
ValAt(s, x, y) == IF <<y + 1, x + 1>> = s.pos THEN s.val ELSE s.fill

\* lines 181-185: the pixels of the window that are not no_data
Hits(s, q) ==
    {h \in (XMinOf(s, q)..(XMaxOf(s, q) - 1)) \X (YMinOf(s, q)..(YMaxOf(s, q) - 1)) :
        ValAt(s, h[1], h[2]) # q.no_data}

\* lines 188-195: the square of the weight of the pixel h
WeightSquared(s, q, h) ==
    LET xc == h[1] * Res + Res \div 2 + GeoXmin
        yc == GeoYmax(s) - h[2] * Res + Res \div 2
    IN  (xc - q.px) * (xc - q.px) + (yc - q.py) * (yc - q.py)

\* lines 196, 200: whether sum, the one product val * weight, is positive
SumPositive(s, q) ==
    \E h \in Hits(s, q) : ValAt(s, h[1], h[2]) > 0 /\ WeightSquared(s, q, h) > 0

\* lines 200-206: with a single pixel that is not no_data, sum / weightsum
\* is val * weight / weight
extract(s, q) ==
    IF SumPositive(s, q) THEN s.val
    ELSE IF Cardinality(Hits(s, q)) > 0 THEN 0
    ELSE q.no_data

OnlyExtract == UNCHANGED <<svars, gvars, uvars, mvars, rvars>>

\* the rasters with one pixel that is not no data
Scenes ==
    {s \in [rows : 1..MaxSide, cols : 1..MaxSide,
            pos : Positions(MaxSide, MaxSide), val : PixelVals, fill : NoDataVals] :
        /\ s.pos \in Positions(s.rows, s.cols)
        /\ s.val # s.fill}

ExtractInit ==
    /\ StackIdle
    /\ GroupIdle
    /\ UnionIdle
    /\ MulticoreIdle
    /\ RasterIdle
    /\ scene \in Scenes
    /\ query \in [px : 0..(Res * MaxSide), py : 0..(Res * MaxSide), radius : {1},
                   no_data : NoDataVals]
    /\ query.px <= Res * scene.cols
    /\ query.py <= Res * scene.rows
    /\ query.no_data = scene.fill
    /\ epc = "call"
    /\ eret = 0

\* lines 139-206
Extract ==
    /\ epc = "call"
    /\ eret' = extract(scene, query)
    /\ epc' = "done"
    /\ UNCHANGED <<scene, query>>
    /\ OnlyExtract

ExtractNext == Extract

SpecExtract == ExtractInit /\ [][ExtractNext]_vars

\* ------------------------------------------------------------ properties of stack()
BadLayernames(r) ==
    r.layernames.given /\ Len(r.layernames.names) # Len(r.srcfiles)

BadResampling(r) == r.resampling \notin Resamplings

NotPair(t) == t.seq = "scalar" \/ t.len # 2

\* nothing outside the process has been touched by the call
NoEffect ==
    /\ opened = {}
    /\ ~tmpdir
    /\ ~dstDir
    /\ vrtFile = NoVrt
    /\ nvrt = 0
    /\ jobs = <<>>
    /\ warped = {}
    /\ ~cube.written

\* C1: a call with layernames of the wrong length or with an unknown
\* resampling method never gets past the argument checks: it is before them
\* or has raised, and no raster was opened, no directory made, no VRT built
\* and no warp called; wrong layernames raise the layernames error.
C1_RejectedBeforeEffect ==
    (BadLayernames(req) \/ BadResampling(req)) =>
        /\ pc \in {"start", "error"}
        /\ NoEffect
        /\ pc = "error" =>
              err \in {"layernames", "typeerror", "targetres", "onefile", "resampling"}
        /\ (pc = "error" /\ BadLayernames(req)) => err = "layernames"

C1_Witness ==
    /\ pc = "error"
    /\ err = "resampling"
    /\ BadResampling(req)
    /\ Len(req.srcfiles) > 1
    /\ NoEffect

\* C2: a call whose targetres is not a sequence of two entries (a scalar, or a
\* sequence of another length) is rejected by the argument checks: it opens no
\* raster, touches no file and never gets to the clip, the mosaics or the warp.
C2_MalformedTargetresRejected ==
    NotPair(req.targetres) =>
        /\ pc \in {"start", "open", "error"}
        /\ NoEffect

Mixed == Cardinality({proj[p] : p \in Used(req)}) > 1

\* C3: once the sources are found to have more than one projection the call
\* has raised the projection error, with no temporary directory, no VRT and no
\* warp; and from the construction of the mosaics on, all sources of the
\* request have one projection.
C3_ProjectionMismatch ==
    /\ Mixed =>
          /\ pc = "error"
          /\ err = "projection"
          /\ ~tmpdir
          /\ vrtFile = NoVrt
          /\ nvrt = 0
          /\ jobs = <<>>
          /\ warped = {}
          /\ ~cube.written
    /\ pc \in {"vrt", "name", "branch", "warp", "cleanup", "done"} =>
          \A p, q \in Used(req) : proj[p] # 0 /\ proj[p] = proj[q]

C3_Witness ==
    /\ Mixed
    /\ pc = "error"
    /\ err = "projection"
    /\ opened = Used(req)

\* the separate outputs are written
TileBranch == req.separate \/ Len(srcfiles) = 1

\* the indices of the pairs to warp
Wanted(pairs) ==
    {i \in DOMAIN pairs : req.overwrite \/ pairs[i].dst \notin dstFiles}

\* C4: in the separate-output branch the pairs handed to the pool are those
\* whose destination file does not exist (all pairs with overwrite), in the
\* order of the pairs; when overwrite is off and every destination exists the
\* call returns at once with no job and no warp call; and a repeated call
\* after a call in which every warp succeeded warps nothing.
C4_WarpOnlyMissing ==
    /\ [](pc = "warp" =>
            LET pairs == Zip(srcfiles, bandnames)
            IN  /\ Len(jobs) = Cardinality(Wanted(pairs))
                /\ \A i \in DOMAIN pairs :
                      i \in Wanted(pairs) <=> \E j \in DOMAIN jobs : jobs[j] = pairs[i]
                /\ \A j \in DOMAIN jobs : \E i \in Wanted(pairs) : jobs[j] = pairs[i])
    /\ []((run > 1 /\ prev.complete /\ ~req.overwrite /\ TileBranch
              /\ pc \in {"warp", "cleanup", "done", "error"}) =>
            (pc = "done" /\ jobs = <<>> /\ warped = {}))
    /\ [][(pc = "branch" /\ TileBranch /\ ~req.overwrite
              /\ \A i \in DOMAIN Zip(srcfiles, bandnames) :
                    Zip(srcfiles, bandnames)[i].dst \in dstFiles) =>
            (pc' = "done" /\ jobs' = <<>> /\ warped' = {} /\ dstFiles' = dstFiles)]_vars

C4_Witness ==
    /\ pc = "warp"
    /\ run > 1
    /\ ~req.overwrite
    /\ jobs # <<>>
    /\ Len(jobs) < Len(Zip(srcfiles, bandnames))

\* C5: when the call has returned, the temporary directory and every VRT file
\* in it are gone.
C5_TmpRemoved ==
    pc = "done" => ~tmpdir /\ vrtFile = NoVrt

C5_Witness ==
    /\ pc = "done"
    /\ run > 1
    /\ nvrt > 0
    /\ jobs = <<>>
    /\ TileBranch
    /\ ~tmpdir

\* the call is about to hand its warp jobs to the pool, with separate and
\* overwrite set, no layernames and no shapefile
TilesOfAllGroups ==
    /\ pc = "warp"
    /\ req.separate
    /\ req.overwrite
    /\ ~req.layernames.given
    /\ ~req.shapefile

\* to every group its own job: the destination named after the stem of the
\* group's first member, the source the mosaic of the group's members
JobPerGroup ==
    LET N == Len(req.srcfiles)
    IN  /\ Len(jobs) = N
        /\ Cardinality({jobs[j].dst : j \in DOMAIN jobs}) = N
        /\ \A i \in 1..N : \E j \in DOMAIN jobs :
              /\ jobs[j].dst = Stem(req.srcfiles[i].m[1])
              /\ Range(vrtFile[jobs[j].src]) = Range(req.srcfiles[i].m)

\* C6 as claimed: with separate and overwrite set and no layernames (and no
\* shapefile) the call issues one job per source group, to distinct
\* destinations, each named after the stem of the group's first member and
\* fed by the mosaic of that group.
C6_JobPerGroup ==
    TilesOfAllGroups => JobPerGroup

DistinctFirstStems ==
    \A i, j \in DOMAIN req.srcfiles :
        Stem(req.srcfiles[i].m[1]) = Stem(req.srcfiles[j].m[1]) => i = j

\* C6 as amended: the same, for groups whose first members have pairwise
\* different stems; the mosaic then lists the group's members as the caller
\* gave them.
C6_JobPerGroupDistinct ==
    (TilesOfAllGroups /\ DistinctFirstStems) =>
        /\ JobPerGroup
        /\ \A i \in DOMAIN req.srcfiles :
              vrtFile[Stem(req.srcfiles[i].m[1])] = req.srcfiles[i].m

C6_Witness ==
    /\ TilesOfAllGroups
    /\ DistinctFirstStems
    /\ Len(req.srcfiles) = 2
    /\ \E i \in DOMAIN req.srcfiles : Len(req.srcfiles[i].m) = 2
    /\ JobPerGroup

Indices(n) == [i \in 1..n |-> i]

\* the groups of the request, by index, of which the shapefile leaves a member
Surviving ==
    SelectSeq(Indices(Len(req.srcfiles)),
              LAMBDA i : ~req.shapefile \/ Range(req.srcfiles[i].m) \cap inside # {})

\* the members of group i the shapefile leaves
Left(i) ==
    IF req.shapefile THEN Range(req.srcfiles[i].m) \cap inside
    ELSE Range(req.srcfiles[i].m)

\* the name of group i: the caller's, else the stem of the first member of
\* what is mosaicked
NameOf(i) ==
    IF req.layernames.given THEN req.layernames.names[i]
    ELSE IF req.shapefile
    THEN Stem(ClipGroup(req.srcfiles[i], inside, req.sortfun).m[1])
    ELSE Stem(req.srcfiles[i].m[1])

\* C7, for a call with layernames: the combined output of a call with two or
\* more groups has one band per surviving group and as many names, and the
\* name written for band k is the caller's layername of the k-th surviving
\* group.
C7_CubeBandsLabelled ==
    (cube.written /\ ~req.separate /\ Len(req.srcfiles) >= 2
         /\ req.layernames.given) =>
        /\ Len(cube.bands) = Len(Surviving)
        /\ Len(cube.names) = Len(cube.bands)
        /\ \A k \in DOMAIN cube.bands : cube.names[k] = NameOf(Surviving[k])

\* C8: after the clip the groups are, in their order, the groups with a
\* member inside the shapefile, each holding exactly its members inside, as a
\* bare file when one is left and as a list when more are.
C8_ClipKeepsIntersecting ==
    (pc = "tmp" /\ req.shapefile) =>
        /\ Len(srcfiles) = Len(Surviving)
        /\ \A k \in DOMAIN srcfiles :
              /\ Range(srcfiles[k].m) = Left(Surviving[k])
              /\ Len(srcfiles[k].m) = Cardinality(Left(Surviving[k]))
              /\ srcfiles[k].kind =
                    IF Cardinality(Left(Surviving[k])) = 1 THEN "file" ELSE "list"

C8_Witness ==
    /\ pc = "tmp"
    /\ req.shapefile
    /\ Len(req.srcfiles) = 2
    /\ req.srcfiles[1].kind = "list"
    /\ Len(req.srcfiles[1].m) = 2
    /\ Len(srcfiles) = 1
    /\ srcfiles[1].kind = "file"
    /\ srcfiles[1].m[1] \in Range(req.srcfiles[1].m)

\* C9: a call in which a warp job of the pool failed does not return normally.
C9_WarpFailurePropagates ==
    failed # {} => pc # "done"

\* the members of group i the mosaic is to reference, in the order asked for:
\* the caller's order, or the order of the caller's sort key
InOrder(i) ==
    LET g == req.srcfiles[i].m
        ordered == IF req.sortfun = "none" THEN g
                   ELSE Sorted(g, PathKey(req.sortfun))
    IN  SelectSeq(ordered, LAMBDA x : x \in Left(i))

\* C18: the files handed to gdalbuildvrt for the k-th surviving group are the
\* group's members (those inside the clip geometry, if one is given) in the
\* caller's order when there is no sortfun and in sortfun order when there is.
C18_MosaicMemberOrder ==
    pc = "vrt" =>
        \A k \in DOMAIN srcfiles \cap DOMAIN Surviving :
            srcfiles[k].m = InOrder(Surviving[k])

\* ------------------------------------------------------------ properties of groupbyTime()
\* C10: the returned groups are a partition of the images: no group is empty,
\* every image is in exactly one group, and the groups one after the other
\* are the images sorted by the key.
C10_Partition ==
    gpc = "done" =>
        /\ \A g \in DOMAIN groups : groups[g].m # <<>>
        /\ \A x \in Range(images) :
              Cardinality({g \in DOMAIN groups : x \in Range(groups[g].m)}) = 1
        /\ dissolve(groups) = Sorted(images, function)

\* the distance of the keys of the loop's item and of the last member of temp
Gap ==
    LET a == function[gsrcfiles[item]]
        b == function[temp[Len(temp)]]
    IN  IF a >= b THEN a - b ELSE b - a

\* C11: in the scan an image whose key is less than `time` away from the key
\* of the image before it (equal keys, distance 0, included) joins the current
\* group, and an image more than `time` away starts a new group.
C11_JoinWithinThreshold ==
    [][(gpc = "scan" /\ item <= Len(gsrcfiles) /\ temp # <<>>) =>
          /\ Gap < time => temp' = Append(temp, gsrcfiles[item])
          /\ Gap > time => temp' = <<gsrcfiles[item]>>]_vars

\* ------------------------------------------------------------ properties of union()
\* C13: the list union(a, b) returns holds an element if and only if the
\* element occurs in a or in b, and holds it once.
C13_UnionOfLists ==
    upc = "done" =>
        /\ Range(uresult) = Range(ua) \cup Range(ub)
        /\ NoDup(uresult)

\* ------------------------------------------------------------ properties of multicore()
\* C14: a multicore call with pathos at hand that returns has called function
\* once for every index i, with the i-th entry of every list of multiargs and
\* all of singleargs, and returns the list of the results of these calls.
C14_ReturnsResults ==
    (mcpc = "done" /\ mp) =>
        /\ Len(processlist) = Len(multiargs.x)
        /\ \A i \in DOMAIN processlist :
              /\ called[i] = 1
              /\ \A k \in DOMAIN multiargs : processlist[i][k] = multiargs[k][i]
              /\ \A k \in DOMAIN singleargs : processlist[i][k] = singleargs[k]
        /\ ~returned.none
        /\ returned.list = [i \in DOMAIN processlist |-> add(processlist[i])]

\* ------------------------------------------------------------ properties of Raster
\* C15: matrix(band, dim) with a window dim inside the raster returns the
\* block of the file with the window's rows and columns, when the band is
\* read from the file and when it is served from the cache load() filled.
C15_MatrixSameFromCache ==
    (rpc = "returned" /\ call.method = "matrix" /\ call.dim # Full
         /\ ops \in {<<>>, <<"load">>}) =>
        ret = ReadAsArray(file, call.band, call.dim)

\* C16: write(outname, dim=window), on an object just opened or after its
\* load(), makes a file of the window's width and height with the origin
\* shifted by the window's offset, and writes to every band the pixels of
\* the window.
C16_WriteWindow ==
    (rpc \in {"returned", "raised"} /\ call.method = "write" /\ call.dim # Full
         /\ ops \in {<<>>, <<"load">>}) =>
        /\ rerr = ""
        /\ out.written
        /\ out.cols = call.dim[3]
        /\ out.rows = call.dim[4]
        /\ out.origin = <<call.dim[1], 0 - call.dim[2]>>
        /\ Len(out.bands) = bands
        /\ \A i \in DOMAIN out.bands :
              out.bands[i] = ReadAsArray(file, i, call.dim)

\* the bounding window [left, top, cols, rows] of the valid pixels of the file
FileBounding == Bounding(ReadAsArray(file, 1, <<0, 0, file.cols, file.rows>>))

\* C17: after reduce() without outname, on an object just opened or after
\* its load(), rows and cols are the height and width of the bounding window
\* of the valid pixels, the array held is the block of that window (no data
\* rows and columns between valid ones kept), and the origin is shifted to
\* the window, as in the file reduce(outname=...) writes.
C17_ReduceTrimsBorder ==
    (rpc = "ready" /\ ops \in {<<"reduce">>, <<"load", "reduce">>}) =>
        /\ rows = FileBounding[4]
        /\ cols = FileBounding[3]
        /\ data = <<ReadAsArray(file, 1, FileBounding)>>
        /\ geo = <<FileBounding[1], 0 - FileBounding[2]>>

\* C19, for a raster of one band: whenever the calls of load(), assign(),
\* rescale() and reduce() made so far have returned, the cache is empty or
\* holds one array per band.
C19_CachePerBand ==
    (rpc = "ready" /\ file.bands = 1) => Len(data) \in {0, bands}

\* C12: extract() on a raster whose window around the point holds the one
\* pixel that is not no_data returns the value of that pixel.
C12_SinglePixelValue ==
    (epc = "done" /\ Cardinality(Hits(scene, query)) = 1) =>
        eret = scene.val

====
